---- MODULE Spec2Model ----
(***************************************************************************)
(* Model of the benzene Hex engine fragments:                              *)
(*   VCUtil::GetMustplay, VCUtil::ValidEdgeBridge   (hex/VCUtil.cpp)       *)
(*   DfsData (constructors, Initialized, ReplaceWith) (DfsData.hpp)        *)
(*   BookCommands book-depths / book-counts / book-scores                  *)
(*                                                 (BookCommands.cpp)      *)
(* The board geometry (ConstBoard), the stone board (StoneBoard) and the   *)
(* transposition table are collaborators of these fragments.               *)
(***************************************************************************)
EXTENDS Integers, FiniteSets, Sequences, TLC

VARIABLES
    width, height,  \* board dimensions
    stones,         \* the game's StoneBoard: cell -> BLACK / WHITE / EMPTY
    vc,             \* the last VCUtil call: arguments seen, outputs, result
    data,           \* a DfsData record
    assigned,       \* history: fields of data set explicitly since the default constructor
    other,          \* a second DfsData record, the candidate for a slot
    slot,           \* a transposition-table slot holding a DfsData
    dfs,            \* the last DfsData operation and its return value
    m_book,         \* BookCommands::m_book is non-null
    cmd             \* the book command in progress: name, pc, local board, iterator

vars == <<width, height, stones, vc, data, assigned, other, slot, dfs, m_book, cmd>>

boardVars == <<width, height, stones>>
dfsVars == <<data, assigned, other, slot, dfs>>
bookVars == <<m_book, cmd>>

----------------------------------------------------------------------------
(* Bounds of the model *)

MaxDim == 2         \* boards from 1x1 up to MaxDim x MaxDim
MaxStones == 2      \* stones played on the game board
MaxCarrier == 3     \* cardinality of the carriers passed to ValidEdgeBridge
MaxSemi == 2        \* cardinality of the semi-connection intersections
MaxCount == 2       \* numstates / nummoves values range over 0..MaxCount
MaxPoint == 2       \* number of cells a bestmove ranges over

----------------------------------------------------------------------------
(* HexPoint, HexColor *)

INVALID_POINT == 0
NORTH == 3
EAST == 4
SOUTH == 5
WEST == 6
FIRST_CELL == 7
MAX_WIDTH == 11

BLACK == "black"
WHITE == "white"
EMPTY == "empty"

EMPTY_BITSET == {}

Edges == {NORTH, EAST, SOUTH, WEST}

isEdge(p) == p \in Edges

coordsToPoint(x, y) == FIRST_CELL + y * MAX_WIDTH + x

Interior(w, h) == {coordsToPoint(x, y) : x \in 0..(w - 1), y \in 0..(h - 1)}

EdgesAndInterior(w, h) == Edges \cup Interior(w, h)

PointX(p) == (p - FIRST_CELL) % MAX_WIDTH

PointY(p) == (p - FIRST_CELL) \div MAX_WIDTH

\* BoardUtil::CoordsToPoint: off-board coordinates are the edges, the four
\* corners beyond the board are no point at all
CoordsToPoint(w, h, x, y) ==
    IF x <= -2 \/ x > w THEN INVALID_POINT
    ELSE IF y <= -2 \/ y > h THEN INVALID_POINT
    ELSE IF (x = -1 \/ x = w) /\ (y = -1 \/ y = h) THEN INVALID_POINT
    ELSE IF y = -1 THEN NORTH
    ELSE IF y = h THEN SOUTH
    ELSE IF x = -1 THEN WEST
    ELSE IF x = w THEN EAST
    ELSE coordsToPoint(x, y)

\* the six directions of the hex grid
Directions == {<<1, 0>>, <<1, -1>>, <<0, -1>>, <<-1, 0>>, <<-1, 1>>, <<0, 1>>}

InteriorNbs(w, h, p) ==
    {CoordsToPoint(w, h, PointX(p) + d[1], PointY(p) + d[2]) : d \in Directions}
        \ {INVALID_POINT}

leftEdge(e) ==
    IF e = NORTH THEN EAST ELSE IF e = EAST THEN SOUTH
    ELSE IF e = SOUTH THEN WEST ELSE NORTH

rightEdge(e) ==
    IF e = NORTH THEN WEST ELSE IF e = WEST THEN SOUTH
    ELSE IF e = SOUTH THEN EAST ELSE NORTH

\* ConstBoard::Nbs: the radius-1 neighbour list of a cell
Nbs(w, h, p) ==
    IF isEdge(p)
    THEN {c \in Interior(w, h) : p \in InteriorNbs(w, h, c)}
             \cup {leftEdge(p), rightEdge(p)}
    ELSE InteriorNbs(w, h, p)

Adjacent(w, h, p1, p2) == p2 \in Nbs(w, h, p1)

----------------------------------------------------------------------------
(* StoneBoard *)

colorOfEdge(e) == IF e \in {NORTH, SOUTH} THEN BLACK ELSE WHITE

\* StoneBoard::StartNewGame: only the edges carry stones
StartNewGame(w, h) ==
    [p \in EdgesAndInterior(w, h) |-> IF isEdge(p) THEN colorOfEdge(p) ELSE EMPTY]

GetOccupied(brd) == {p \in DOMAIN brd : brd[p] # EMPTY}

GetEmpty(brd) == {p \in DOMAIN brd : brd[p] = EMPTY}

GetPlayed(brd) == {p \in DOMAIN brd : brd[p] # EMPTY /\ ~isEdge(p)}

NumStones(brd, color) == Cardinality({p \in GetPlayed(brd) : brd[p] = color})

\* StoneBoard::WhoseTurn: black moves first, the colours alternate
WhoseTurn(brd) ==
    IF NumStones(brd, BLACK) = NumStones(brd, WHITE) THEN BLACK ELSE WHITE

PlayMove(brd, color, p) == [brd EXCEPT ![p] = color]

UndoMove(brd, p) == [brd EXCEPT ![p] = EMPTY]

----------------------------------------------------------------------------
(* VCUtil *)

RECURSIVE BitsetToVector(_)
\* BitsetUtil::BitsetToVector: the set's points in ascending order
BitsetToVector(bs) ==
    IF bs = {} THEN <<>>
    ELSE LET m == CHOOSE x \in bs : \A y \in bs : x <= y
         IN <<m>> \o BitsetToVector(bs \ {m})

Reverse(s) == [i \in 1..Len(s) |-> s[Len(s) + 1 - i]]

\* GetMustplay without the mask of empty cells
GetMustplay_NoEmptyMask(brd, fullExists, semiIntersection) ==
    IF fullExists
    THEN EMPTY_BITSET
    ELSE semiIntersection

\* GetMustplay without the test for a full connection
GetMustplay_NoFullTest(brd, fullExists, semiIntersection) ==
    GetEmpty(brd) \cap semiIntersection

\* VCUtil::GetMustplay; fullExists and semiIntersection are what
\* brd.Cons(other).FullExists() and brd.Cons(other).SemiIntersection() return
GetMustplay(brd, fullExists, semiIntersection) ==
    IF fullExists
    THEN EMPTY_BITSET
    ELSE GetEmpty(brd) \cap semiIntersection

\* the early returns without the test for occupied carrier cells
BridgeRejected_NoOccupiedTest(brd, w, h, carrier) ==
    IF Cardinality(carrier) # 2 THEN TRUE
    ELSE LET miai == BitsetToVector(carrier)
         IN ~Adjacent(w, h, miai[1], miai[2])

\* ValidEdgeBridge, the three early returns
BridgeRejected(brd, w, h, carrier) ==
    IF Cardinality(carrier) # 2 THEN TRUE
    ELSE IF (GetOccupied(brd) \cap carrier) # {} THEN TRUE
    ELSE LET miai == BitsetToVector(carrier)
         IN ~Adjacent(w, h, miai[1], miai[2])

\* the common neighbours with both loops over the neighbours of miai[0]
CommonNbs_SameCell(w, h, carrier, reversed) ==
    LET miai == BitsetToVector(carrier)
        both == {n1 \in Nbs(w, h, miai[1]) : \E n2 \in Nbs(w, h, miai[1]) : n1 = n2}
    IN IF reversed THEN Reverse(BitsetToVector(both)) ELSE BitsetToVector(both)

\* ValidEdgeBridge, "Find the two cells adjacent to both": the common
\* neighbours, in the order of the neighbour list of miai[0]
CommonNbs(w, h, carrier, reversed) ==
    LET miai == BitsetToVector(carrier)
        both == {n1 \in Nbs(w, h, miai[1]) : \E n2 \in Nbs(w, h, miai[2]) : n1 = n2}
    IN IF reversed THEN Reverse(BitsetToVector(both)) ELSE BitsetToVector(both)

\* the pick that looks at adj[0] only
PickEdge_FirstOnly(adj) ==
    IF isEdge(adj[1])
    THEN [ret |-> "true", edge |-> adj[1], endpoint |-> adj[2]]
    ELSE [ret |-> "false", edge |-> INVALID_POINT, endpoint |-> INVALID_POINT]

\* ValidEdgeBridge, "Pick the edge and endpoint"
PickEdge(adj) ==
    IF isEdge(adj[1])
    THEN [ret |-> "true", edge |-> adj[1], endpoint |-> adj[2]]
    ELSE IF isEdge(adj[2])
    THEN [ret |-> "true", edge |-> adj[2], endpoint |-> adj[1]]
    ELSE [ret |-> "false", edge |-> INVALID_POINT, endpoint |-> INVALID_POINT]

\* VCUtil::ValidEdgeBridge.  endpoint and edge are the caller's variables,
\* INVALID_POINT on entry and untouched unless the result is true.  ret is
\* "assert" when BenzeneAssert(adj.size() == 2) fails.
ValidEdgeBridge(brd, w, h, carrier, reversed) ==
    IF BridgeRejected(brd, w, h, carrier)
    THEN [ret |-> "false", adj |-> <<>>, examined |-> FALSE,
          edge |-> INVALID_POINT, endpoint |-> INVALID_POINT]
    ELSE LET adj == CommonNbs(w, h, carrier, reversed)
         IN IF Len(adj) # 2
            THEN [ret |-> "assert", adj |-> adj, examined |-> TRUE,
                  edge |-> INVALID_POINT, endpoint |-> INVALID_POINT]
            ELSE LET pick == PickEdge(adj)
                 IN [ret |-> pick.ret, adj |-> adj, examined |-> TRUE,
                     edge |-> pick.edge, endpoint |-> pick.endpoint]

NoCall ==
    [op |-> "none", color |-> BLACK, full |-> FALSE, semi |-> {}, mustplay |-> {},
     carrier |-> {}, ret |-> "none", adj |-> <<>>, examined |-> FALSE,
     edge |-> INVALID_POINT, endpoint |-> INVALID_POINT]

----------------------------------------------------------------------------
(* DfsData *)

FLAG_TRANSPOSITION == 1
FLAG_MIRROR_TRANSPOSITION == 2

Fields == {"win", "flags", "numstates", "nummoves", "bestmove"}

\* the values a HexPoint field takes in the model
Points == {INVALID_POINT} \cup (FIRST_CELL..(FIRST_CELL + MaxPoint - 1))

FlagValues == 0..(FLAG_TRANSPOSITION + FLAG_MIRROR_TRANSPOSITION)

Counts == 0..MaxCount

\* DfsData::DfsData()
DefaultDfsData ==
    [win |-> FALSE, flags |-> 0, numstates |-> 0, nummoves |-> 0,
     bestmove |-> INVALID_POINT]

\* DfsData::DfsData(bool w, int nstates, int nmoves, HexPoint bmove)
MakeDfsData(w, nstates, nmoves, bmove) ==
    [win |-> w, flags |-> 0, numstates |-> nstates, nummoves |-> nmoves,
     bestmove |-> bmove]

\* Initialized with the comparison turned around
Initialized_Inverted(d) == d.bestmove = INVALID_POINT

\* Initialized as "differs from the default-constructed state"
Initialized_NotDefault(d) == d # DefaultDfsData

\* DfsData::Initialized
Initialized(d) == d.bestmove # INVALID_POINT

\* ReplaceWith that keeps an initialized record against an uninitialized one
ReplaceWith_KeepInitialized(self, candidate) ==
    Initialized(candidate) \/ ~Initialized(self)

\* DfsData::ReplaceWith
ReplaceWith(self, candidate) == TRUE

\* the records the four-argument constructor builds
BuiltRecords ==
    {MakeDfsData(w, n, m, b) : w \in BOOLEAN, n \in Counts, m \in Counts, b \in Points}

\* TransTable::Put on the slot a key hashes to: the stored record is asked
\* whether it gives up the slot
TTPut(stored, candidate) ==
    IF ReplaceWith(stored, candidate) THEN candidate ELSE stored

----------------------------------------------------------------------------
(* BookCommands *)

NoCommand(brd) ==
    [name |-> "none", pc |-> "idle", live |-> FALSE, brd |-> brd, saved |-> brd,
     color |-> BLACK, iter |-> <<>>, p |-> INVALID_POINT]

\* the iterator over every cell of the board
BookIterator_AllCells(brd) == BitsetToVector({c \in DOMAIN brd : ~isEdge(c)})

\* BitsetIterator p(brd.GetEmpty()): the empty cells, fixed when the loop starts
BookIterator(brd) == BitsetToVector(GetEmpty(brd))

BookLoopCommands == {"book-depths", "book-counts", "book-scores"}

----------------------------------------------------------------------------
(* The game board and the calls of VCUtil *)

\* a new game on a board of some size, no call or command in progress, the
\* records default-constructed, no book open
Init ==
    /\ width \in 1..MaxDim
    /\ height \in 1..MaxDim
    /\ stones = StartNewGame(width, height)
    /\ vc = NoCall
    /\ data = [win |-> FALSE, flags |-> 0, numstates |-> 0, nummoves |-> 0,
               bestmove |-> INVALID_POINT]
    /\ assigned = {}
    /\ other = data
    /\ slot = data
    /\ dfs = [op |-> "none", ret |-> FALSE]
    /\ m_book = FALSE
    /\ cmd = NoCommand(stones)

\* a move of the game: the player to move takes an empty cell
Play ==
    /\ Cardinality(GetPlayed(stones)) < MaxStones
    /\ vc.op = "none"
    /\ cmd.pc = "idle"
    /\ \E p \in GetEmpty(stones) :
           stones' = PlayMove(stones, WhoseTurn(stones), p)
    /\ vc' = NoCall
    /\ cmd' = NoCommand(stones')
    /\ UNCHANGED <<width, height, dfsVars, m_book>>

\* what Cons(other).SemiIntersection() may return
SemiIntersections ==
    {c \in SUBSET Interior(width, height) : Cardinality(c) <= MaxSemi}

CallGetMustplay ==
    /\ vc.op = "none"
    /\ \E color \in {BLACK, WHITE}, fullExists \in BOOLEAN,
          semiIntersection \in SemiIntersections :
           vc' = [NoCall EXCEPT !.op = "GetMustplay", !.color = color,
                                !.full = fullExists, !.semi = semiIntersection,
                                !.mustplay = GetMustplay(stones, fullExists,
                                                         semiIntersection)]
    /\ UNCHANGED <<boardVars, dfsVars, bookVars>>

Carriers ==
    {c \in SUBSET EdgesAndInterior(width, height) : Cardinality(c) <= MaxCarrier}

CallValidEdgeBridge ==
    /\ vc.op = "none"
    /\ \E carrier \in Carriers, reversed \in BOOLEAN :
           LET r == ValidEdgeBridge(stones, width, height, carrier, reversed)
           IN vc' = [NoCall EXCEPT !.op = "ValidEdgeBridge", !.carrier = carrier,
                                   !.ret = r.ret, !.adj = r.adj,
                                   !.examined = r.examined,
                                   !.edge = r.edge, !.endpoint = r.endpoint]
    /\ UNCHANGED <<boardVars, dfsVars, bookVars>>

\* the caller has consumed the result
Return ==
    /\ vc.op # "none"
    /\ vc' = NoCall
    /\ UNCHANGED <<boardVars, dfsVars, bookVars>>

NextVC == Play \/ CallGetMustplay \/ CallValidEdgeBridge \/ Return

SpecVC == Init /\ [][NextVC]_vars

----------------------------------------------------------------------------
(* The life of one DfsData record *)

ConstructDefault ==
    /\ dfs.op = "none"
    /\ data' = DefaultDfsData
    /\ assigned' = {}
    /\ UNCHANGED <<boardVars, vc, other, slot, dfs, bookVars>>

\* the constructor's initializer list gives every field a value
ConstructWithValues ==
    /\ dfs.op = "none"
    /\ \E w \in BOOLEAN, nstates \in Counts, nmoves \in Counts, bmove \in Points :
           data' = MakeDfsData(w, nstates, nmoves, bmove)
    /\ assigned' = Fields
    /\ UNCHANGED <<boardVars, vc, other, slot, dfs, bookVars>>

\* the fields are public: data.win = v
AssignWin ==
    /\ dfs.op = "none"
    /\ \E v \in BOOLEAN : data' = [data EXCEPT !.win = v]
    /\ assigned' = assigned \cup {"win"}
    /\ UNCHANGED <<boardVars, vc, other, slot, dfs, bookVars>>

AssignFlags ==
    /\ dfs.op = "none"
    /\ \E v \in FlagValues : data' = [data EXCEPT !.flags = v]
    /\ assigned' = assigned \cup {"flags"}
    /\ UNCHANGED <<boardVars, vc, other, slot, dfs, bookVars>>

AssignNumstates ==
    /\ dfs.op = "none"
    /\ \E v \in Counts : data' = [data EXCEPT !.numstates = v]
    /\ assigned' = assigned \cup {"numstates"}
    /\ UNCHANGED <<boardVars, vc, other, slot, dfs, bookVars>>

AssignNummoves ==
    /\ dfs.op = "none"
    /\ \E v \in Counts : data' = [data EXCEPT !.nummoves = v]
    /\ assigned' = assigned \cup {"nummoves"}
    /\ UNCHANGED <<boardVars, vc, other, slot, dfs, bookVars>>

AssignBestmove ==
    /\ dfs.op = "none"
    /\ \E v \in Points : data' = [data EXCEPT !.bestmove = v]
    /\ assigned' = assigned \cup {"bestmove"}
    /\ UNCHANGED <<boardVars, vc, other, slot, dfs, bookVars>>

CallInitialized ==
    /\ dfs.op = "none"
    /\ dfs' = [op |-> "Initialized", ret |-> Initialized(data)]
    /\ UNCHANGED <<boardVars, vc, data, assigned, other, slot, bookVars>>

ReturnDfs ==
    /\ dfs.op # "none"
    /\ dfs' = [op |-> "none", ret |-> FALSE]
    /\ UNCHANGED <<boardVars, vc, data, assigned, other, slot, bookVars>>

NextDfs ==
    \/ ConstructDefault
    \/ ConstructWithValues
    \/ AssignWin
    \/ AssignFlags
    \/ AssignNumstates
    \/ AssignNummoves
    \/ AssignBestmove
    \/ CallInitialized
    \/ ReturnDfs

SpecDfs == Init /\ [][NextDfs]_vars

----------------------------------------------------------------------------
(* One slot of a transposition table and the records put into it *)

\* the solver builds the record it is about to store
BuildOther ==
    /\ dfs.op = "none"
    /\ other' \in BuiltRecords \cup {DefaultDfsData}
    /\ UNCHANGED <<boardVars, vc, data, assigned, slot, dfs, bookVars>>

CallReplaceWith ==
    /\ dfs.op = "none"
    /\ dfs' = [op |-> "ReplaceWith", ret |-> ReplaceWith(slot, other)]
    /\ UNCHANGED <<boardVars, vc, data, assigned, other, slot, bookVars>>

Put ==
    /\ dfs.op = "none"
    /\ slot' = TTPut(slot, other)
    /\ dfs' = [op |-> "Put", ret |-> ReplaceWith(slot, other)]
    /\ UNCHANGED <<boardVars, vc, data, assigned, other, bookVars>>

NextTT == BuildOther \/ CallReplaceWith \/ Put \/ ReturnDfs

SpecTT == Init /\ [][NextTT]_vars

----------------------------------------------------------------------------
(* The book commands that try every empty cell *)

\* book-open: m_book.reset(new Book(fn)), or the book stays as it was when
\* the constructor throws
CmdBookOpen ==
    /\ cmd.pc = "idle"
    /\ m_book' \in {TRUE, m_book}
    /\ UNCHANGED <<boardVars, vc, dfsVars, cmd>>

\* book-close
CmdBookClose ==
    /\ cmd.pc = "idle"
    /\ m_book
    /\ m_book' = FALSE
    /\ UNCHANGED <<boardVars, vc, dfsVars, cmd>>

\* entry of book-depths, book-counts, book-scores: HtpFailure without a
\* book; book-counts takes the game's board by reference, the other two
\* copy it
CmdBegin ==
    /\ cmd.pc = "idle"
    /\ cmd.name = "none"
    /\ vc.op = "none"
    /\ \E name \in BookLoopCommands :
           cmd' = IF ~m_book
                  THEN [NoCommand(stones) EXCEPT !.name = name, !.pc = "failed"]
                  ELSE [NoCommand(stones) EXCEPT
                            !.name = name, !.pc = "loop",
                            !.live = (name = "book-counts"),
                            !.color = WhoseTurn(stones),
                            !.iter = BookIterator(stones)]
    /\ UNCHANGED <<boardVars, vc, dfsVars, m_book>>

\* the board the command's loop works on
LoopBoard == IF cmd.live THEN stones ELSE cmd.brd

\* brd.PlayMove(color, *p)
LoopPlayMove ==
    /\ cmd.pc = "loop"
    /\ cmd.iter # <<>>
    /\ LET p == Head(cmd.iter)
           color == IF cmd.name = "book-depths" THEN WhoseTurn(LoopBoard)
                    ELSE cmd.color
           played == PlayMove(LoopBoard, color, p)
       IN /\ stones' = IF cmd.live THEN played ELSE stones
          /\ cmd' = [cmd EXCEPT !.pc = "played", !.p = p,
                                !.brd = played]
    /\ UNCHANGED <<width, height, vc, dfsVars, m_book>>

\* the book lookup and its output, then brd.UndoMove(*p); ++p
LoopUndoMove ==
    /\ cmd.pc = "played"
    /\ LET undone == UndoMove(LoopBoard, cmd.p)
       IN /\ stones' = IF cmd.live THEN undone ELSE stones
          /\ cmd' = [cmd EXCEPT !.pc = "loop", !.brd = undone,
                                !.iter = Tail(cmd.iter)]
    /\ UNCHANGED <<width, height, vc, dfsVars, m_book>>

\* the iterator is exhausted (book-scores then sorts and prints)
LoopEnd ==
    /\ cmd.pc = "loop"
    /\ cmd.iter = <<>>
    /\ cmd' = [cmd EXCEPT !.pc = "done"]
    /\ UNCHANGED <<boardVars, vc, dfsVars, m_book>>

\* the command's response has been sent
CmdEnd ==
    /\ cmd.pc \in {"done", "failed"}
    /\ cmd' = NoCommand(stones)
    /\ UNCHANGED <<boardVars, vc, dfsVars, m_book>>

NextBook ==
    \/ Play
    \/ CmdBookOpen
    \/ CmdBookClose
    \/ CmdBegin
    \/ LoopPlayMove
    \/ LoopUndoMove
    \/ LoopEnd
    \/ CmdEnd

SpecBook == Init /\ [][NextBook]_vars

----------------------------------------------------------------------------
(* Claims about VCUtil, checked under SpecVC *)

IsMustplayCall == vc.op = "GetMustplay"

IsBridgeCall == vc.op = "ValidEdgeBridge"

\* the cells of the board without a stone, read off the board itself
EmptyCells == {p \in Interior(width, height) : stones[p] = EMPTY}

\* the cells that are neighbours of both cells of a two-cell carrier
CommonOf(carrier) ==
    {n \in EdgesAndInterior(width, height) :
         \A c \in carrier : Adjacent(width, height, c, n)}

MutuallyAdjacent(carrier) ==
    \A a, b \in carrier : a # b => Adjacent(width, height, a, b)

\* what a step that is a call of GetMustplay must do: return the empty set
\* when the opponent has a full connection, otherwise exactly the empty
\* cells of the board that lie in the opponent's semi-connection
\* intersection, and leave the board as it was
C1_Call ==
    (vc.op = "none" /\ vc'.op = "GetMustplay") =>
        /\ vc'.mustplay = (IF vc'.full THEN {} ELSE EmptyCells \cap vc'.semi)
        /\ UNCHANGED boardVars

\* C1: GetMustplay(board, color) is the empty set if the opponent of color
\* has a full connection, otherwise the intersection of the board's empty
\* cells with the opponent's semi-connection intersection; the board is not
\* modified
C1_GetMustplay == [][C1_Call]_vars

C1_Witness ==
    /\ IsMustplayCall
    /\ ~vc.full
    /\ vc.mustplay # {}
    /\ vc.mustplay # vc.semi

C3_EarlyFalse ==
    (/\ IsBridgeCall
     /\ \/ Cardinality(vc.carrier) # 2
        \/ \E p \in vc.carrier : stones[p] # EMPTY
        \/ ~MutuallyAdjacent(vc.carrier))
    => (vc.ret = "false" /\ ~vc.examined /\ vc.adj = <<>>)

C3_Witness ==
    /\ IsBridgeCall
    /\ Cardinality(vc.carrier) = 2
    /\ MutuallyAdjacent(vc.carrier)
    /\ \E p \in vc.carrier : ~isEdge(p) /\ stones[p] # EMPTY
    /\ vc.ret = "false"

\* C4: ValidEdgeBridge returns true only for a carrier of exactly two
\* unoccupied, mutually adjacent cells whose common neighbours are one edge
\* cell and one interior cell; the endpoint it outputs is never an edge
C4_TrueOnlyForEdgeAndInterior ==
    (IsBridgeCall /\ vc.ret = "true") =>
        /\ Cardinality(vc.carrier) = 2
        /\ \A p \in vc.carrier : stones[p] = EMPTY
        /\ MutuallyAdjacent(vc.carrier)
        /\ Cardinality(CommonOf(vc.carrier)) = 2
        /\ Cardinality(CommonOf(vc.carrier) \cap Edges) = 1
        /\ ~isEdge(vc.endpoint)

\* C5: for a carrier of two empty, mutually adjacent cells whose common
\* neighbours are one edge cell and one interior cell, ValidEdgeBridge
\* returns true with edge the edge cell and endpoint the interior cell, in
\* whichever order the common neighbours are listed
C5_CanonicalBridge ==
    (/\ IsBridgeCall
     /\ Cardinality(vc.carrier) = 2
     /\ \A p \in vc.carrier : stones[p] = EMPTY
     /\ MutuallyAdjacent(vc.carrier)
     /\ Cardinality(CommonOf(vc.carrier)) = 2
     /\ Cardinality(CommonOf(vc.carrier) \cap Edges) = 1)
    => /\ vc.ret = "true"
       /\ CommonOf(vc.carrier) \cap Edges = {vc.edge}
       /\ CommonOf(vc.carrier) \ Edges = {vc.endpoint}

C5_Witness ==
    /\ IsBridgeCall
    /\ vc.ret = "true"
    /\ Len(vc.adj) = 2
    /\ ~isEdge(vc.adj[1])
    /\ vc.edge = vc.adj[2]
    /\ vc.endpoint = vc.adj[1]

\* C9: the assertion adj.size() == 2 holds whenever it is reached: two
\* distinct, unoccupied, mutually adjacent cells of a Hex board have exactly
\* two common neighbours
C9_AssertHolds ==
    /\ IsBridgeCall => vc.ret # "assert"
    /\ (IsBridgeCall /\ vc.examined) => Len(vc.adj) = 2
    /\ vc.op = "none" =>
           \A a, b \in GetEmpty(stones) :
               (a # b /\ Adjacent(width, height, a, b))
                   => Cardinality(CommonOf({a, b})) = 2

C9_Witness ==
    /\ IsBridgeCall
    /\ vc.examined
    /\ vc.ret = "false"
    /\ width = MaxDim
    /\ height = MaxDim

----------------------------------------------------------------------------
(* Claims about DfsData, checked under SpecDfs and SpecTT *)

C8_Step ==
    /\ (dfs.op = "none" /\ dfs'.op = "ReplaceWith") =>
           (dfs'.ret = TRUE /\ slot' = slot /\ other' = other)
    /\ (dfs.op = "none" /\ dfs'.op = "Put") =>
           (dfs'.ret = TRUE /\ slot' = other /\ other' = other)
    /\ dfs'.op \notin {"ReplaceWith", "Put"} => slot' = slot

\* C8: ReplaceWith(other) returns true for every stored record and every
\* candidate and modifies neither; a slot whose store consults ReplaceWith
\* holds the most recently put record after any sequence of puts
C8_AlwaysReplace == [][C8_Step]_vars

C8_Witness ==
    /\ dfs.op = "Put"
    /\ dfs.ret
    /\ slot = other
    /\ ~Initialized(slot)
    /\ slot # DefaultDfsData

----------------------------------------------------------------------------
(* Claims about the book commands, checked under SpecBook *)

\* the stones on brd that cmd.saved, the board at the command's entry, lacks
TrialStones(brd) == {c \in DOMAIN brd : brd[c] # cmd.saved[c]}

\* C10: in book-depths, book-counts and book-scores every PlayMove is undone
\* before the next one, so the board the loop works on carries at most one
\* trial stone, on the cell of the current iteration and on a cell that was
\* empty; book-counts works on the game's board, which is as at entry
\* whenever no trial stone is placed and when the command completes; the
\* other two commands never touch the game's board
C10_NestedPlayUndo ==
    cmd.name \in BookLoopCommands =>
        /\ cmd.pc \in {"loop", "done", "failed"} => LoopBoard = cmd.saved
        /\ cmd.pc = "played" =>
               /\ TrialStones(LoopBoard) = {cmd.p}
               /\ cmd.saved[cmd.p] = EMPTY
               /\ cmd.p = Head(cmd.iter)
        /\ ~cmd.live => stones = cmd.saved
        /\ (cmd.live /\ cmd.pc = "done") => stones = cmd.saved
        /\ cmd.live <=> (cmd.name = "book-counts" /\ cmd.pc # "failed")

C10_Witness ==
    /\ cmd.name = "book-counts"
    /\ cmd.pc = "done"
    /\ GetPlayed(stones) # {}
    /\ GetEmpty(stones) # {}

====
